---- MODULE Spec2Model ----
(***************************************************************************)
(* Model of @visualization/visualize_fire_risk.py: a script that loads     *)
(* building records from buildings.json (creating the file from a built-in *)
(* sample when it is absent), draws a bar chart sorted by descending fire  *)
(* risk score, then tries to draw a chart grouped by building type.        *)
(*                                                                         *)
(* Spec      models runs of main(), one action per statement of main.      *)
(* ColorSpec applies the pure function get_color_mapping to a range of     *)
(*           scores.                                                       *)
(***************************************************************************)
EXTENDS Integers, Sequences, FiniteSets, TLC

VARIABLES
    fs_json,         \* buildings.json on disk: [exists, valid, text]
    files,           \* image files present on disk
    written,         \* files this run of main has created or written
    pc,              \* position of the current run inside main
    buildings_data,  \* main's local buildings_data (list of dicts)
    bars,            \* bars drawn by create_risk_score_chart, left to right
    grouped_bars,    \* plt.bar calls of create_building_type_chart, in order
    grouped,         \* outcome of create_building_type_chart in this run
    raised,          \* statement of main at which an exception was raised
    existed,         \* history: buildings.json existed when the run started
    start_json,      \* history: buildings.json as it was when the run started
    prev_run,        \* history: what the previous run created and charted
    runs,            \* number of runs of the script started so far
    score,           \* ColorSpec: argument of get_color_mapping
    color            \* ColorSpec: value returned by get_color_mapping

vars == <<fs_json, files, written, pc, buildings_data, bars, grouped_bars,
          grouped, raised, existed, start_json, prev_run, runs, score, color>>

mainVars == <<fs_json, files, written, pc, buildings_data, bars, grouped_bars,
              grouped, raised, existed, start_json, prev_run, runs>>

colorVars == <<score, color>>

----------------------------------------------------------------------------
(* Bounds *)

MaxRecords == 3     \* longest list of records found in an existing file
MaxRuns == 2        \* number of times the script is run in one behaviour
ScoreMargin == 20   \* how far outside 0..100 the scores handed to
                    \* get_color_mapping reach

----------------------------------------------------------------------------
(* File names *)

buildings_file == "buildings.json"

\* default output_file of create_risk_score_chart
RiskChartFileDefault_wrong == "risk_scores_by_type_chart.png"

RiskChartFileDefault == "risk_scores_chart.png"

\* default output_file of create_building_type_chart
TypeChartFileDefault == "risk_scores_by_type_chart.png"

----------------------------------------------------------------------------
(* get_color_mapping *)

NoColor == "unset"

get_color_mapping_inclusive(s) ==
    IF s <= 33 THEN "#10B981"
    ELSE IF s <= 66 THEN "#F59E0B"
    ELSE "#EF4444"

get_color_mapping(s) ==
    IF s < 33 THEN "#10B981"
    ELSE IF s < 66 THEN "#F59E0B"
    ELSE "#EF4444"

----------------------------------------------------------------------------
(* JSON: json.dump writes a list of dicts as text, json.load parses it.    *)
(* A number is written as a sign and decimal digits, a string as a string  *)
(* token; an object keeps its keys.                                        *)

RECURSIVE Digits(_)
Digits(n) == IF n < 10 THEN <<n>> ELSE Append(Digits(n \div 10), n % 10)

RECURSIVE FromDigits_reversed(_)
FromDigits_reversed(ds) ==
    IF Len(ds) = 0 THEN 0
    ELSE 10 * FromDigits_reversed(Tail(ds)) + Head(ds)

RECURSIVE FromDigits(_)
FromDigits(ds) ==
    IF Len(ds) = 0 THEN 0
    ELSE 10 * FromDigits(SubSeq(ds, 1, Len(ds) - 1)) + ds[Len(ds)]

JsonNumber(n) ==
    [kind |-> "number", neg |-> n < 0,
     digits |-> Digits(IF n < 0 THEN -n ELSE n), text |-> ""]

JsonString(s) ==
    [kind |-> "string", neg |-> FALSE, digits |-> <<>>, text |-> s]

\* the records carry an int under fire_risk_score and strings elsewhere
JsonEncode(k, v) == IF k = "fire_risk_score" THEN JsonNumber(v) ELSE JsonString(v)

JsonDecode(t) ==
    IF t.kind = "number"
    THEN (IF t.neg THEN -FromDigits(t.digits) ELSE FromDigits(t.digits))
    ELSE t.text

json_dump(data) ==
    [i \in 1..Len(data) |->
        [k \in DOMAIN data[i] |-> JsonEncode(k, data[i][k])]]

json_load(text) ==
    [i \in 1..Len(text) |->
        [k \in DOMAIN text[i] |-> JsonDecode(text[i][k])]]

Absent == [exists |-> FALSE, valid |-> FALSE, text |-> <<>>]

\* a file that is not valid JSON (for instance cut short while written)
Corrupt == [exists |-> TRUE, valid |-> FALSE, text |-> <<>>]

JsonFile(data) == [exists |-> TRUE, valid |-> TRUE, text |-> json_dump(data)]

----------------------------------------------------------------------------
(* Building records *)

\* the fields of sample_data that the charts read
sample_data ==
    << [building_name |-> "Tercero Residence Halls", fire_risk_score |-> 72,
        building_type |-> "Residential"],
       [building_name |-> "Segundo Residence Halls", fire_risk_score |-> 65,
        building_type |-> "Residential"],
       [building_name |-> "Sciences Laboratory Building", fire_risk_score |-> 45,
        building_type |-> "Academic"],
       [building_name |-> "Memorial Union", fire_risk_score |-> 31,
        building_type |-> "Administrative"],
       [building_name |-> "Shields Library", fire_risk_score |-> 28,
        building_type |-> "Academic"],
       [building_name |-> "Meyer Hall", fire_risk_score |-> 52,
        building_type |-> "Research"] >>

\* records an existing buildings.json may hold; nothing validates them
RecordPool ==
    { [building_name |-> n, fire_risk_score |-> s, building_type |-> "Residential"] :
          n \in {"A", "B"}, s \in {32, 66} }
    \cup { [building_name |-> "A", fire_risk_score |-> 32, building_type |-> "Academic"],
           [building_name |-> "B", fire_risk_score |-> 66, building_type |-> "Academic"] }
    \cup { [building_name |-> "A", fire_risk_score |-> 32],
           [building_name |-> "B", fire_risk_score |-> 66] }
    \cup { [building_name |-> "A", building_type |-> "Academic"] }
    \cup { [fire_risk_score |-> 66, building_type |-> "Residential"] }

RecordLists == UNION { [1..n -> RecordPool] : n \in 0..MaxRecords }

----------------------------------------------------------------------------
(* create_risk_score_chart *)

Range(f) == { f[i] : i \in DOMAIN f }

HasKeys(data, key) == \A i \in 1..Len(data) : key \in DOMAIN data[i]

\* [b[key] for b in buildings_data]
Extract(data, key) == [i \in 1..Len(data) |-> data[i][key]]

\* np.argsort: any index order that puts the values in non-decreasing order
\* (the default sort kind does not promise an order among equal values)
ArgSort(values) ==
    { p \in [1..Len(values) -> 1..Len(values)] :
        /\ \A i, j \in 1..Len(values) : i # j => p[i] # p[j]
        /\ \A i, j \in 1..Len(values) : i < j => values[p[i]] <= values[p[j]] }

Reverse_missing(s) == s

\* [::-1]
Reverse(s) == [i \in 1..Len(s) |-> s[Len(s) + 1 - i]]

SortedNames_unsorted(names, sorted_indices) == names

\* building_names = [building_names[i] for i in sorted_indices]
SortedNames(names, sorted_indices) ==
    [i \in 1..Len(sorted_indices) |-> names[sorted_indices[i]]]

\* risk_scores = [risk_scores[i] for i in sorted_indices]
SortedScores(scores, sorted_indices) ==
    [i \in 1..Len(sorted_indices) |-> scores[sorted_indices[i]]]

\* bar i of plt.bar / plt.xticks: tick label, height and colour
Bars(names, scores) ==
    [i \in 1..Len(names) |->
        [label |-> names[i], height |-> scores[i],
         color |-> get_color_mapping(scores[i])]]

AfterRiskChart_absorbing(exc) == "chart2"

\* main has no handler around create_risk_score_chart
AfterRiskChart(exc) == IF exc THEN "crashed" ELSE "chart2"

----------------------------------------------------------------------------
(* create_building_type_chart *)

NaN == "<NaN>"

HasBuildingType_any(data) == \E i \in 1..Len(data) : "building_type" \in DOMAIN data[i]

\* 'building_type' in buildings_data[0]
HasBuildingType(data) == "building_type" \in DOMAIN data[1]

\* a column of pd.DataFrame(buildings_data): NaN where a record lacks the key
Column(df, key) ==
    [i \in 1..Len(df) |-> IF key \in DOMAIN df[i] THEN df[i][key] ELSE NaN]

HasColumn(df, key) == \E i \in 1..Len(df) : key \in DOMAIN df[i]

\* Series.unique(): distinct values in order of first appearance
RECURSIVE Unique(_)
Unique(col) ==
    IF Len(col) = 0 THEN <<>>
    ELSE LET init == Unique(SubSeq(col, 1, Len(col) - 1))
             last == col[Len(col)]
         IN  IF last \in Range(init) THEN init ELSE Append(init, last)

IsOfType(b, building_type) ==
    /\ building_type # NaN
    /\ "building_type" \in DOMAIN b
    /\ b.building_type = building_type

TypeData_sorted(df, building_type) ==
    LET rows == SelectSeq(df, LAMBDA b : IsOfType(b, building_type))
        order == CHOOSE p \in ArgSort(Column(rows, "fire_risk_score")) : TRUE
    IN  [i \in 1..Len(rows) |-> rows[order[Len(rows) + 1 - i]]]

\* df[df['building_type'] == building_type]: rows keep the input order
TypeData(df, building_type) ==
    SelectSeq(df, LAMBDA b : IsOfType(b, building_type))

\* one plt.bar call per building type
GroupedBars(df) ==
    LET building_types == Unique(Column(df, "building_type"))
    IN  [i \in 1..Len(building_types) |->
            LET type_data == TypeData(df, building_types[i])
            IN  [label |-> building_types[i],
                 heights |-> Column(type_data, "fire_risk_score"),
                 names |-> Column(type_data, "building_name")]]

AfterGroupedChart_propagating(exc) == IF exc THEN "crashed" ELSE "report"

\* try: create_building_type_chart(...) except Exception: print(...)
AfterGroupedChart(exc) == "report"

----------------------------------------------------------------------------
(* main *)

NoRun == [created |-> FALSE, charted |-> FALSE, data |-> <<>>]

NeedsSample_always(file) == TRUE

\* not Path(buildings_file).exists()
NeedsSample(file) == ~file.exists

Init ==
    /\ fs_json \in {Absent, Corrupt} \cup { JsonFile(d) : d \in RecordLists }
    /\ files = {}
    /\ written = {}
    /\ pc = "check_sample"
    /\ buildings_data = <<>>
    /\ bars = <<>>
    /\ grouped_bars = <<>>
    /\ grouped = "not_attempted"
    /\ raised = "none"
    /\ existed = fs_json.exists
    /\ start_json = fs_json
    /\ prev_run = NoRun
    /\ runs = 1
    /\ score = 0
    /\ color = NoColor

\* if not Path(buildings_file).exists(): ... json.dump(sample_data, f)
\* open() may fail (nothing is created) and the write may be cut short
CheckSample ==
    /\ pc = "check_sample"
    /\ IF NeedsSample(fs_json)
       THEN \E outcome \in {"ok", "open_failed", "write_failed"} :
              /\ fs_json' = CASE outcome = "ok" -> JsonFile(sample_data)
                               [] outcome = "open_failed" -> fs_json
                               [] outcome = "write_failed" -> Corrupt
              /\ written' = IF outcome = "open_failed" THEN written
                            ELSE written \cup {buildings_file}
              /\ raised' = IF outcome = "ok" THEN raised ELSE "check_sample"
              /\ pc' = IF outcome = "ok" THEN "load" ELSE "crashed"
       ELSE /\ pc' = "load"
            /\ UNCHANGED <<fs_json, written, raised>>
    /\ UNCHANGED <<files, buildings_data, bars, grouped_bars, grouped,
                   existed, start_json, prev_run, runs, colorVars>>

\* buildings_data = load_buildings_data(buildings_file)
\* open() or json.load may raise; nothing in main catches it
LoadData ==
    /\ pc = "load"
    /\ \E readable \in BOOLEAN :
         IF readable /\ fs_json.exists /\ fs_json.valid
         THEN /\ buildings_data' = json_load(fs_json.text)
              /\ pc' = "chart1"
              /\ UNCHANGED raised
         ELSE /\ raised' = "load"
              /\ pc' = "crashed"
              /\ UNCHANGED buildings_data
    /\ UNCHANGED <<fs_json, files, written, bars, grouped_bars, grouped,
                   existed, start_json, prev_run, runs, colorVars>>

\* create_risk_score_chart(buildings_data)
RiskScoreChart ==
    /\ pc = "chart1"
    /\ IF ~(HasKeys(buildings_data, "building_name")
             /\ HasKeys(buildings_data, "fire_risk_score"))
       THEN \* KeyError in one of the two list comprehensions
            /\ raised' = "chart1"
            /\ pc' = AfterRiskChart(TRUE)
            /\ UNCHANGED <<bars, files, written>>
       ELSE \E order \in ArgSort(Extract(buildings_data, "fire_risk_score")),
               saved \in BOOLEAN :
              LET sorted_indices == Reverse(order)
                  building_names ==
                      SortedNames(Extract(buildings_data, "building_name"),
                                  sorted_indices)
                  risk_scores ==
                      SortedScores(Extract(buildings_data, "fire_risk_score"),
                                   sorted_indices)
              IN  /\ bars' = Bars(building_names, risk_scores)
                  /\ IF saved
                     THEN /\ files' = files \cup {RiskChartFileDefault}
                          /\ written' = written \cup {RiskChartFileDefault}
                          /\ UNCHANGED raised
                     ELSE \* plt.savefig raises
                          /\ raised' = "chart1"
                          /\ UNCHANGED <<files, written>>
                  /\ pc' = AfterRiskChart(~saved)
    /\ UNCHANGED <<fs_json, buildings_data, grouped_bars, grouped,
                   existed, start_json, prev_run, runs, colorVars>>

\* try: create_building_type_chart(buildings_data) except Exception as e: ...
BuildingTypeChart ==
    /\ pc = "chart2"
    /\ IF Len(buildings_data) = 0
       THEN \* buildings_data[0] raises IndexError
            /\ grouped' = "raised"
            /\ raised' = "chart2"
            /\ pc' = AfterGroupedChart(TRUE)
            /\ UNCHANGED <<grouped_bars, files, written>>
       ELSE IF ~HasBuildingType(buildings_data)
       THEN \* "Skipping grouped chart", return None
            /\ grouped' = "skipped"
            /\ pc' = AfterGroupedChart(FALSE)
            /\ UNCHANGED <<grouped_bars, files, written, raised>>
       ELSE IF ~(HasColumn(buildings_data, "fire_risk_score")
                 /\ HasColumn(buildings_data, "building_name"))
       THEN \* KeyError on a column no record has
            /\ grouped' = "raised"
            /\ raised' = "chart2"
            /\ pc' = AfterGroupedChart(TRUE)
            /\ UNCHANGED <<grouped_bars, files, written>>
       ELSE \E saved \in BOOLEAN :
              /\ grouped_bars' = GroupedBars(buildings_data)
              /\ IF saved
                 THEN /\ grouped' = "saved"
                      /\ files' = files \cup {TypeChartFileDefault}
                      /\ written' = written \cup {TypeChartFileDefault}
                      /\ UNCHANGED raised
                 ELSE \* plt.savefig raises
                      /\ grouped' = "raised"
                      /\ raised' = "chart2"
                      /\ UNCHANGED <<files, written>>
              /\ pc' = AfterGroupedChart(~saved)
    /\ UNCHANGED <<fs_json, buildings_data, bars,
                   existed, start_json, prev_run, runs, colorVars>>

\* print("Visualization complete!") and the list of the two file names
Report ==
    /\ pc = "report"
    /\ pc' = "done"
    /\ UNCHANGED <<fs_json, files, written, buildings_data, bars, grouped_bars,
                   grouped, raised, existed, start_json, prev_run, runs,
                   colorVars>>

\* if __name__ == "__main__": main()  -- the script is started again, in the
\* working directory the previous run left behind
NewRun ==
    /\ pc \in {"done", "crashed"}
    /\ runs < MaxRuns
    /\ runs' = runs + 1
    /\ prev_run' = [created |-> buildings_file \in written /\ fs_json.valid,
                    charted |-> "risk_scores_chart.png" \in written,
                    data |-> buildings_data]
    /\ pc' = "check_sample"
    /\ written' = {}
    /\ buildings_data' = <<>>
    /\ bars' = <<>>
    /\ grouped_bars' = <<>>
    /\ grouped' = "not_attempted"
    /\ raised' = "none"
    /\ existed' = fs_json.exists
    /\ start_json' = fs_json
    /\ UNCHANGED <<fs_json, files, colorVars>>

Next ==
    \/ CheckSample
    \/ LoadData
    \/ RiskScoreChart
    \/ BuildingTypeChart
    \/ Report
    \/ NewRun

Spec == Init /\ [][Next]_vars

----------------------------------------------------------------------------
(* get_color_mapping applied to every score of a range *)

ColorInit ==
    /\ fs_json = Absent
    /\ files = {}
    /\ written = {}
    /\ pc = "check_sample"
    /\ buildings_data = <<>>
    /\ bars = <<>>
    /\ grouped_bars = <<>>
    /\ grouped = "not_attempted"
    /\ raised = "none"
    /\ existed = FALSE
    /\ start_json = Absent
    /\ prev_run = NoRun
    /\ runs = 1
    /\ score \in (0 - ScoreMargin)..(100 + ScoreMargin)
    /\ color = NoColor

Classify ==
    /\ color = NoColor
    /\ color' = get_color_mapping(score)
    /\ UNCHANGED <<score, mainVars>>

ColorNext == Classify

ColorSpec == ColorInit /\ [][ColorNext]_vars

----------------------------------------------------------------------------
(* Properties *)

Green == "#10B981"
Amber == "#F59E0B"
Red == "#EF4444"

RiskPng == "risk_scores_chart.png"
TypePng == "risk_scores_by_type_chart.png"

\* create_risk_score_chart got as far as drawing its bars in this run
ChartDrawn ==
    \/ pc \in {"chart2", "report", "done"}
    \/ /\ pc = "crashed"
       /\ raised = "chart1"
       /\ HasKeys(buildings_data, "building_name")
       /\ HasKeys(buildings_data, "fire_risk_score")

\* main is past its call of create_building_type_chart
GroupedChartAttempted == grouped # "not_attempted"

Bijections(n) ==
    { p \in [1..n -> 1..n] : \A i, j \in 1..n : i # j => p[i] # p[j] }

\* C1: get_color_mapping classifies every score, also outside 0..100: green
\* exactly below 33, amber exactly from 33 up to but excluding 66, red exactly
\* from 66 on.
C1_ThreeBuckets ==
    color # NoColor =>
        /\ color \in {Green, Amber, Red}
        /\ (color = Green) <=> (score < 33)
        /\ (color = Amber) <=> (33 <= score /\ score < 66)
        /\ (color = Red) <=> (score >= 66)

C1_Witness == score = 33 /\ color = Amber

\* C2: the bars of create_risk_score_chart are a permutation of the input
\* records, in non-increasing order of score from left to right.
C2_SortedPermutation ==
    ChartDrawn =>
        /\ Len(bars) = Len(buildings_data)
        /\ \E p \in Bijections(Len(bars)) :
              \A i \in 1..Len(bars) :
                 /\ bars[i].label = buildings_data[p[i]].building_name
                 /\ bars[i].height = buildings_data[p[i]].fire_risk_score
        /\ \A i, j \in 1..Len(bars) : i < j => bars[i].height >= bars[j].height

C2_Witness ==
    /\ ChartDrawn
    /\ Len(bars) >= 2
    /\ buildings_data[1].fire_risk_score < buildings_data[2].fire_risk_score
    /\ bars[1].height > bars[Len(bars)].height

\* C3: a run of main that has printed the completion report has created both
\* risk_scores_chart.png and risk_scores_by_type_chart.png during that run.
C3_BothFilesCreated ==
    pc = "done" => {RiskPng, TypePng} \subseteq written

\* C4: main absorbs only an exception of create_building_type_chart, after
\* which it goes on to the report; an exception while loading or inside
\* create_risk_score_chart ends main, the grouped chart is not attempted and
\* the report is not printed.
C4_OnlyGroupedChartAbsorbed ==
    /\ raised = "chart2" => pc \in {"report", "done"}
    /\ raised \in {"check_sample", "load", "chart1"} =>
          pc = "crashed" /\ ~GroupedChartAttempted
    /\ pc \in {"report", "done"} => raised \in {"none", "chart2"}

C4_Witness == raised = "chart2" /\ grouped = "raised" /\ pc = "done"

\* C5 as stated: the run writes nothing but the two chart images, and
\* buildings.json is never created or modified.
C5_OnlyChartsWritten ==
    /\ written \subseteq {RiskPng, TypePng}
    /\ fs_json = start_json

\* C5 amended: the run writes nothing but the two chart images and, only
\* when buildings.json did not exist at the start, buildings.json; a
\* buildings.json that existed at the start is never modified.
C5_ChartsAndMissingSample ==
    /\ written \subseteq {RiskPng, TypePng}
                    \cup (IF existed THEN {} ELSE {buildings_file})
    /\ existed => fs_json = start_json

C5_Witness ==
    ~existed /\ buildings_file \in written /\ fs_json.valid /\ pc = "done"

\* indices of the records of one building type, and the k-th of them
IndicesOfType(building_type) ==
    { i \in 1..Len(buildings_data) :
        /\ "building_type" \in DOMAIN buildings_data[i]
        /\ buildings_data[i].building_type = building_type }

KthIndex(S, k) == CHOOSE i \in S : Cardinality({ j \in S : j < i }) = k - 1

\* C6 as stated: within each building type the bars of the grouped chart are
\* in non-increasing order of score.
C6_GroupsSortedDescending ==
    grouped = "saved" =>
        \A g \in 1..Len(grouped_bars) :
           \A i, j \in 1..Len(grouped_bars[g].heights) :
              i < j => grouped_bars[g].heights[i] >= grouped_bars[g].heights[j]

\* C6 amended: the grouped chart is not sorted; within each building type
\* the bars are the records of that type in the order of the input.
C6_GroupsInInputOrder ==
    grouped = "saved" =>
        \A g \in 1..Len(grouped_bars) :
           LET S == IndicesOfType(grouped_bars[g].label)
           IN  /\ Len(grouped_bars[g].heights) = Cardinality(S)
               /\ Len(grouped_bars[g].names) = Cardinality(S)
               /\ \A k \in 1..Cardinality(S) :
                     /\ grouped_bars[g].heights[k] =
                            buildings_data[KthIndex(S, k)].fire_risk_score
                     /\ grouped_bars[g].names[k] =
                            buildings_data[KthIndex(S, k)].building_name

C6_Witness ==
    /\ grouped = "saved"
    /\ \E g \in 1..Len(grouped_bars) :
          /\ Len(grouped_bars[g].heights) >= 2
          /\ grouped_bars[g].heights[1] < grouped_bars[g].heights[2]

\* C7: risk_scores_chart.png is saved before create_building_type_chart is
\* invoked: no run has attempted the grouped chart or written
\* risk_scores_by_type_chart.png without having written risk_scores_chart.png.
C7_RiskChartFirst ==
    (TypePng \in written \/ GroupedChartAttempted) => RiskPng \in written

C7_Witness == TypePng \in written /\ RiskPng \in written /\ runs = 1

\* C8: every bar's label, height and colour are the name, the score and the
\* colour of the score of one and the same input record.
C8_FieldsStayTogether ==
    ChartDrawn =>
        \A i \in 1..Len(bars) :
           \E j \in 1..Len(buildings_data) :
              /\ bars[i].label = buildings_data[j].building_name
              /\ bars[i].height = buildings_data[j].fire_risk_score
              /\ bars[i].color =
                    get_color_mapping(buildings_data[j].fire_risk_score)

C8_Witness ==
    /\ ChartDrawn
    /\ Len(bars) = 3
    /\ bars[1].height = bars[2].height
    /\ bars[1].label # bars[2].label
    /\ bars[2].label = bars[3].label
    /\ bars[2].height # bars[3].height

\* C9: for a non-empty input create_building_type_chart returns None, having
\* written nothing, exactly when the first record has no building_type, the
\* other records notwithstanding; for an empty input it raises, main catches
\* the exception, and no grouped file is written.
C9_SkipDecidedByFirstRecord ==
    GroupedChartAttempted =>
        /\ Len(buildings_data) > 0 =>
              ((grouped = "skipped" /\ TypePng \notin written)
                  <=> "building_type" \notin DOMAIN buildings_data[1])
        /\ Len(buildings_data) = 0 =>
              /\ grouped = "raised"
              /\ raised = "chart2"
              /\ pc \in {"report", "done"}
              /\ TypePng \notin written
        /\ grouped = "skipped" => raised = "none" /\ pc \in {"report", "done"}

C9_Witness ==
    /\ grouped = "skipped"
    /\ Len(buildings_data) >= 2
    /\ "building_type" \in DOMAIN buildings_data[2]

\* C10: a buildings.json that exists at the start is never written and the
\* chart shows exactly its contents; a missing one is created from the six
\* sample records, which are then loaded and charted; the next run finds the
\* file, leaves it as it is and charts the same data.
C10_InputFileHandling ==
    /\ existed => fs_json = start_json /\ buildings_file \notin written
    /\ (existed /\ RiskPng \in written) =>
          /\ Len(bars) = Len(start_json.text)
          /\ \E p \in Bijections(Len(bars)) :
                \A i \in 1..Len(bars) :
                   /\ bars[i].label = start_json.text[p[i]].building_name.text
                   /\ ~start_json.text[p[i]].fire_risk_score.neg
                   /\ Digits(bars[i].height) =
                         start_json.text[p[i]].fire_risk_score.digits
    /\ (~existed /\ pc \notin {"check_sample", "crashed"}) =>
          /\ buildings_file \in written
          /\ fs_json.exists /\ fs_json.valid
    /\ (~existed /\ RiskPng \in written) =>
          /\ buildings_data = sample_data
          /\ Len(bars) = 6
          /\ { bars[i].height : i \in 1..Len(bars) } = {72, 65, 52, 45, 31, 28}
    /\ (prev_run.created /\ prev_run.charted /\ RiskPng \in written) =>
          /\ existed
          /\ buildings_data = prev_run.data

C10_Witness ==
    /\ runs = 2
    /\ prev_run.created
    /\ prev_run.charted
    /\ RiskPng \in written
    /\ pc = "done"

====
